---- MODULE Spec2Model ----
(***************************************************************************)
(* A model of apkkit's APK assembly pipeline (apkkit/io/apkfile.py):       *)
(* the process-wide FILTERS registry, the payload archiver, the metadata   *)
(* archiver, the signer, APKFile.create and APKFile.write.                 *)
(*                                                                         *)
(* Byte strings are sequences of units.  A unit of an uncompressed tar     *)
(* stream is one tar member (or the end-of-archive marker), a unit of a    *)
(* compressed stream is one complete gzip member.  Digests and signatures  *)
(* are symbolic terms over the bytes they were computed from.              *)
(***************************************************************************)
EXTENDS Integers, Sequences, FiniteSets, TLC

\* ------------------------------------------------------------------ bounds

\* number of APKFile.create calls one process makes in sequence
MaxCalls == 2

\* number of APKFile.write calls in the persisting process
MaxWrites == 2

\* ------------------------------------------------------------- basic values

NoneVal == "None"

\* ------------------------------------------------------- file names, trees

\* The characters of one path component, as the tokens the substring test of
\* _ensure_no_debug can tell apart.
Chars(seg) ==
    CASE seg = "debugger" -> <<"debug", "ger">>
      [] seg = ".hidden"  -> <<".", "hidden">>
      [] OTHER            -> <<seg>>

RECURSIVE Join(_)
\* os.path.join of the components of a relative path
Join(segs) ==
    IF Len(segs) = 0 THEN <<>>
    ELSE IF Len(segs) = 1 THEN Chars(segs[1])
    ELSE Chars(segs[1]) \o <<"/">> \o Join(Tail(segs))

\* the file name tarfile.add passes to the exclusion predicate:
\* datadir + '/' + the path below it
FullName(datadir, arc) == datadir \o <<"/">> \o Join(arc)

\* Python's  needle in haystack  on strings
Contains(hay, needle) ==
    \E i \in 0..(Len(hay) - Len(needle)) :
        SubSeq(hay, i + 1, i + Len(needle)) = needle

DebugNeedle == <<"usr", "/", "lib", "/", "debug">>

\* the source directories a build is given
DataDirs ==
    { <<"/", "tmp", "/", "image">>,
      <<"/", "usr", "/", "lib", "/", "debug", "/", "image">> }

PlainDir == <<"/", "tmp", "/", "image">>

\* the regular files a source directory may hold, with their byte sizes
FileSize(p) ==
    CASE p = <<"bin", "hello">>                        -> 10
      [] p = <<"usr", "lib", "debug", "hello.debug">>  -> 5
      [] p = <<"usr", "lib", "debugger", "plugin">>    -> 3
      [] p = <<".hidden">>                             -> 1
      [] OTHER                                         -> 0

Hello    == <<"bin", "hello">>
DebugSym == <<"usr", "lib", "debug", "hello.debug">>
Plugin   == <<"usr", "lib", "debugger", "plugin">>
DotFile  == <<".hidden">>

\* the directory trees the builds are run on (each a set of regular files)
Trees ==
    { {Hello},
      {Hello, DebugSym},
      {Hello, DebugSym, Plugin},
      {Hello, DotFile},
      {DebugSym} }

\* every path of a tree: the files and the directories above them
Paths(tree) ==
    UNION { { SubSeq(f, 1, n) : n \in 1..Len(f) } : f \in tree }

IsDir(tree, p) == \E f \in tree : Len(f) > Len(p) /\ SubSeq(f, 1, Len(p)) = p

\* the order in which the filesystem lists directory entries
ListingOrder ==
    <<".hidden", "bin", "usr", "lib", "debug", "debugger", "hello",
      "hello.debug", "plugin">>

\* os.listdir(datadir/arc), in listing order
listdir(tree, arc) ==
    LET has(s) == Append(arc, s) \in Paths(tree)
    IN  SelectSeq(ListingOrder, has)

\* glob.glob(datadir + '/*'): the top-level entries, dot files left out
glob(tree) ==
    LET shown(s) == Head(Chars(s)) # "."
    IN  SelectSeq(listdir(tree, <<>>), shown)

\* ------------------------------------------------------------ the filters

\* _ensure_no_debug: True if the file is a debug file
ensure_no_debug(filename) == Contains(filename, DebugNeedle)

\* The callables a caller passes as filters=[...].  Like _ensure_no_debug
\* each answers True for a file name it wants left out of data.tar.gz.
apply(func, filename) ==
    CASE func = "ensure_no_debug" -> ensure_no_debug(filename)
      [] func = "drop_bin"        -> Contains(filename, <<"bin">>)
      [] func = "drop_nothing"    -> FALSE
      [] OTHER                    -> FALSE

\* the values of the filters keyword: absent ('filters' not in kwargs), or a
\* list of callables
NoFilters == [ given |-> FALSE, funcs |-> <<>> ]

FilterList(funcs) == [ given |-> TRUE, funcs |-> funcs ]

FilterArgs ==
    { NoFilters, FilterList(<<"drop_bin">>), FilterList(<<"drop_nothing">>) }

\* the callables of a filters argument, as a set
FuncsOf(filters) == { filters.funcs[i] : i \in 1..Len(filters.funcs) }

\* the values of the module global FILTERS: None, or a set of callables
NoneFilters == [ none |-> TRUE, funcs |-> {} ]

FilterSet(funcs) == [ none |-> FALSE, funcs |-> funcs ]

\* _add_filter_func: the registry after func is added
add_filter_func(registry, func) ==
    FilterSet((IF registry.none THEN {} ELSE registry.funcs) \cup {func})

RECURSIVE add_all(_, _)
\* [_add_filter_func(func) for func in kwargs.pop('filters')]
add_all(registry, funcs) ==
    IF Len(funcs) = 0 THEN registry
    ELSE add_all(add_filter_func(registry, Head(funcs)), Tail(funcs))

\* reset_filters gone wrong: the registry of the previous call is kept
keep_filters(registry) == registry

\* FILTERS = None at the head of create ("ensure no stale filters")
reset_filters(registry) == NoneFilters

\* the registry create has installed when the payload is archived
install_filters(registry, filters) ==
    LET fresh  == reset_filters(registry)
        passed == IF filters.given THEN add_all(fresh, filters.funcs) ELSE fresh
    IN  add_filter_func(passed, "ensure_no_debug")

\* _tar_filter: the exclusion predicate handed to tarfile.add, all() of the
\* answers of the registered callables (the registry is a set here)
tar_filter(registry, filename) ==
    \A func \in registry.funcs : apply(func, filename)

\* --------------------------------------------------------- the payload tar

\* one member of an uncompressed tar stream
Member(tree, arc) ==
    [ name |-> arc,
      type |-> IF IsDir(tree, arc) THEN "dir" ELSE "file",
      size |-> IF IsDir(tree, arc) THEN 0 ELSE FileSize(arc),
      cksum |-> FALSE ]

EndOfArchive == [ name |-> <<>>, type |-> "eoa", size |-> 0, cksum |-> FALSE ]

RECURSIVE tar_add(_, _, _, _)
RECURSIVE tar_add_each(_, _, _, _, _)
\* TarFile.add(name, arcname, exclude=...), on the interpreters whose tarfile
\* still takes exclude=: nothing when the predicate answers True for the name,
\* else the member and, for a directory, its entries recursively
tar_add(tree, datadir, arc, registry) ==
    IF tar_filter(registry, FullName(datadir, arc)) THEN <<>>
    ELSE <<Member(tree, arc)>> \o
         (IF IsDir(tree, arc)
          THEN tar_add_each(tree, datadir, arc, listdir(tree, arc), registry)
          ELSE <<>>)

tar_add_each(tree, datadir, arc, names, registry) ==
    IF Len(names) = 0 THEN <<>>
    ELSE tar_add(tree, datadir, Append(arc, Head(names)), registry)
         \o tar_add_each(tree, datadir, arc, Tail(names), registry)

\* the closed data.tar: every glob result added, then the end-of-archive marker
data_tar(tree, datadir, registry) ==
    tar_add_each(tree, datadir, <<>>, glob(tree), registry) \o <<EndOfArchive>>

\* the names of the members of a tar stream
Names(tar) == { tar[i].name : i \in { j \in 1..Len(tar) : tar[j].type # "eoa" } }

\* the regular files among the members of a tar stream
FilesIn(tar) ==
    { tar[i].name : i \in { j \in 1..Len(tar) : tar[j].type = "file" } }

\* --------------------------------------------------------------- io.BytesIO

BytesIO(initial) == [ buf |-> initial, pos |-> 0 ]

getvalue(b) == b.buf

\* seek(offset, whence): whence 0 is from the start, 2 from the end
seek(b, offset, whence) ==
    [ b EXCEPT !.pos = IF whence = 2 THEN Len(b.buf) + offset ELSE offset ]

\* the bytes read() returns: from the position to the end
read(b) == SubSeq(b.buf, b.pos + 1, Len(b.buf))

\* the object after read()
after_read(b) == [ b EXCEPT !.pos = IF b.pos > Len(b.buf) THEN b.pos ELSE Len(b.buf) ]

\* the object after write(data) at the position
write_bytes(b, data) ==
    [ buf |-> SubSeq(b.buf, 1, b.pos) \o data
              \o SubSeq(b.buf, b.pos + Len(data) + 1, Len(b.buf)),
      pos |-> b.pos + Len(data) ]

\* shutil.copyfileobj(src, dst): dst afterwards
copyfileobj(src, dst) == write_bytes(dst, read(src))

\* gzip.GzipFile(mode='wb', fileobj=gzio) written with data and closed:
\* one complete gzip member at the position of gzio
gzip_into(gzio, data) == write_bytes(gzio, << [ gz |-> data ] >>)

\* what a decompressor yields for one gzip member
gunzip(member) == member.gz

\* ------------------------------------------------------ digests, signatures

\* the names hashlib has
HashlibNames == { "sha256", "sha1" }

\* getattr(hashlib, hash_method)(data).hexdigest()
hexdigest(hash_method, data) == [ alg |-> hash_method, of |-> data ]

\* a Package whose data_hash was never set
NoHash == [ alg |-> NoneVal, of |-> <<>> ]

\* private_key.signer(PKCS1v15, SHA256) over data
rsa_sign(privkey, data) == [ key |-> privkey, over |-> data ]

\* the private key files that exist and load without a password
KeyFiles == { "alice.rsa" }

\* os.path.basename(signfile) + '.pub'
default_pubkey(signfile) == <<signfile, ".pub">>

\* os.getenv(name, default) for a variable that is unset when its value is empty
getenv(value, default) == IF value = <<>> THEN default ELSE value

\* ------------------------------------------------------------ abuild-tar

\* what the child process 'abuild-tar --hash' may do
HelperOutcomes == { "ok", "exit_failure", "not_found" }

\* the stdout of abuild-tar --hash fed the tar stream: every regular file
\* gains its checksum header; a failed child has written nothing
abuild_tar_hash(tar, outcome) ==
    IF outcome = "ok"
    THEN [ i \in 1..Len(tar) |->
             IF tar[i].type = "file" THEN [ tar[i] EXCEPT !.cksum = TRUE ]
             ELSE tar[i] ]
    ELSE <<>>

\* lines 143-152 of _make_data_tgz: the scratch file piped through
\* abuild-tar, its stdout compressed into the gzio that is returned; the
\* exit status of the child is not looked at
compress_data(tar, outcome) ==
    gzip_into(BytesIO(<<>>), abuild_tar_hash(tar, outcome))

\* -------------------------------------------------------- the metadata tar

\* Package.to_pkginfo(): the key = value lines of the record
to_pkginfo(package) ==
    [ pkgname |-> package.name, size |-> package.size,
      datahash |-> package.data_hash ]

\* _make_control_tgz: .PKGINFO added to control.tar, the stream so far
\* compressed; control_tar.close() comes after, so no end marker is in it
make_control_tgz(package) ==
    LET member  == [ name |-> <<".PKGINFO">>, type |-> "file",
                     body |-> to_pkginfo(package) ]
        control == write_bytes(BytesIO(<<>>), <<member>>)
    IN  gzip_into(BytesIO(<<>>), read(seek(control, 0, 0)))

\* sign_control gone wrong: control is not rewound before it is appended
sign_control_no_rewind(control, privkey, pubkey) ==
    LET signature   == rsa_sign(privkey, getvalue(control))
        member      == [ name |-> <<".SIGN.RSA.">> \o pubkey, type |-> "file",
                         body |-> signature ]
        new_control == write_bytes(BytesIO(<<>>), <<member>>)
        controlgz   == gzip_into(BytesIO(<<>>), read(seek(new_control, 0, 0)))
        appended    == copyfileobj(control, seek(controlgz, 0, 2))
    IN  seek(appended, 0, 0)

\* _sign_control: the signature over control.getvalue(), its tar member
\* compressed on its own, the control stream appended after it
sign_control(control, privkey, pubkey) ==
    LET signature   == rsa_sign(privkey, getvalue(control))
        member      == [ name |-> <<".SIGN.RSA.">> \o pubkey, type |-> "file",
                         body |-> signature ]
        new_control == write_bytes(BytesIO(<<>>), <<member>>)
        controlgz   == gzip_into(BytesIO(<<>>), read(seek(new_control, 0, 0)))
        appended    == copyfileobj(seek(control, 0, 0), seek(controlgz, 0, 2))
    IN  seek(appended, 0, 0)

\* recursive_size(datadir): the byte size of the whole tree below datadir
recursive_size(tree) ==
    LET RECURSIVE total(_)
        total(files) ==
            IF files = {} THEN 0
            ELSE LET f == CHOOSE x \in files : TRUE
                 IN  FileSize(f) + total(files \ {f})
    IN  total(tree)

\* ------------------------------------------------------------ APKFile.create

\* the Package a caller hands to create
NewPackage == [ name |-> "hello", size |-> 0, data_hash |-> NoHash ]

\* the private key path and the public key name create signs with
signing_key(environ, signfile) == getenv(environ.PACKAGE_PRIVKEY, <<signfile>>)[1]

signing_pubkey(environ, signfile) ==
    getenv(environ.PACKAGE_PUBKEY, default_pubkey(signing_key(environ, signfile)))

\* the stage of create that raises, "none" when create returns:
\*   data  Popen cannot start abuild-tar
\*   hash  hashlib has no attribute hash_method
\*   sign  basename(None), a key file that cannot be opened, or the names of
\*         the cryptography module left unbound by the failed import
raising_stage(args, environ, cryptography) ==
    IF args.helper = "not_found" THEN "data"
    ELSE IF args.data_hash /\ args.hash_method \notin HashlibNames THEN "hash"
    ELSE IF args.sign /\ ( \/ signing_key(environ, args.signfile) = NoneVal
                           \/ signing_key(environ, args.signfile) \notin KeyFiles
                           \/ ~cryptography )
         THEN "sign"
    ELSE "none"

\* hash_data gone wrong: data_gzio is read where the compressor left it
hash_data_unrewound(package, data_gzio, hash_method) ==
    [ package EXCEPT !.data_hash = hexdigest(hash_method, read(data_gzio)) ]

\* package.data_hash after lines 257-261: the digest of data_gzio read from 0
hash_data(package, data_gzio, hash_method) ==
    [ package EXCEPT
        !.data_hash = hexdigest(hash_method, read(seek(data_gzio, 0, 0))) ]

\* lines 281-283: controlgz, then data_gzio, copied into combined, each from
\* its own position
combine(controlgz, data_gzio) ==
    copyfileobj(data_gzio, copyfileobj(controlgz, BytesIO(<<>>)))

\* Lines 243-288 of create, given the data.tar the payload archiver wrote.
\* The fields are the call's local objects.
assemble(tar, environ, cryptography, args) ==
    LET sized     == [ NewPackage EXCEPT !.size = recursive_size(args.tree) ]
        gzio      == compress_data(tar, args.helper)
        package   == IF args.data_hash
                     THEN hash_data(sized, gzio, args.hash_method)
                     ELSE sized
        data_gzio == seek(gzio, 0, 0)
        control   == make_control_tgz(package)
        privkey   == signing_key(environ, args.signfile)
        pubkey    == signing_pubkey(environ, args.signfile)
        controlgz == IF args.sign THEN sign_control(control, privkey, pubkey)
                     ELSE control
        stage     == raising_stage(args, environ, cryptography)
    IN  [ args     |-> args,
          raised   |-> stage,
          scratch  |-> tar,
          package  |-> IF stage \in {"data", "hash"} THEN sized ELSE package,
          data     |-> IF stage = "data" THEN <<>> ELSE getvalue(data_gzio),
          control  |-> IF stage \in {"data", "hash"} THEN <<>>
                       ELSE getvalue(control),
          combined |-> IF stage = "none" THEN combine(controlgz, data_gzio)
                       ELSE BytesIO(<<>>) ]

\* What one call of create computes, from the registry it finds, the process
\* environment and its arguments.
create(registry0, environ, cryptography, args) ==
    LET registry == install_filters(registry0, args.filters)
        tar      == data_tar(args.tree, args.datadir, registry)
    IN  [ prior |-> registry0, registry |-> registry ]
        @@ assemble(tar, environ, cryptography, args)

\* open_x gone wrong: the file is opened with mode 'wb'
open_w(file) ==
    [ raised |-> FALSE, file |-> [ exists |-> TRUE, data |-> <<>> ] ]

\* open(path, 'xb'): FileExistsError when a file is there, else a new empty file
open_x(file) ==
    [ raised |-> file.exists,
      file   |-> IF file.exists THEN file ELSE [ exists |-> TRUE, data |-> <<>> ] ]

\* APKFile.write(path): the object and the file at path afterwards
write(fileobj, file) ==
    LET rewound == seek(fileobj, 0, 0)
        opened  == open_x(file)
    IN  IF opened.raised
        THEN [ raised |-> TRUE, fileobj |-> rewound, file |-> opened.file ]
        ELSE [ raised  |-> FALSE,
               fileobj |-> after_read(rewound),
               file    |-> [ exists |-> TRUE,
                             data   |-> getvalue(copyfileobj(rewound,
                                            BytesIO(opened.file.data))) ] ]

\* ------------------------------------------------------------------- state

VARIABLES
    FILTERS,        \* the module global of apkfile.py
    cryptography,   \* whether the import at lines 22-25 succeeded
    environ,        \* PACKAGE_PRIVKEY and PACKAGE_PUBKEY of the process
    scratch,        \* the mkstemp files that exist, by the call that made them
    calls,          \* the create calls made so far
    last,           \* the locals of the latest create call
    apk,            \* the APKFile the latest create returned
    disk,           \* the files at the destination paths
    written,        \* the latest write call: its path and how it ended
    pc,             \* where each thread is in create
    loc             \* the locals of each thread's create call

vars ==
    <<FILTERS, cryptography, environ, scratch, calls, last, apk, disk, written,
      pc, loc>>

\* The arguments the builds are run with: every tree, directory and filters
\* argument under the usual options, and every combination of the options
\* on one tree.
TreeArgs ==
    [ tree : Trees, datadir : DataDirs, filters : FilterArgs,
      sign : BOOLEAN, signfile : { "alice.rsa" },
      data_hash : { TRUE }, hash_method : { "sha256" },
      helper : { "ok" } ]

OptionArgs ==
    [ tree : { {Hello, DebugSym} }, datadir : { PlainDir },
      filters : { NoFilters },
      sign : BOOLEAN, signfile : { NoneVal, "alice.rsa" },
      data_hash : BOOLEAN, hash_method : { "sha256", "sha1", "md6" },
      helper : HelperOutcomes ]

\* arguments that differ only in an argument create never reads are one call
Distinct(args) ==
    /\ (~args.sign => args.signfile = "alice.rsa")
    /\ (~args.data_hash => args.hash_method = "sha256")

Builds == { args \in TreeArgs \cup OptionArgs : Distinct(args) }

\* the builds of the process that also writes its archives out
WriteBuilds ==
    [ tree : { {Hello}, {Hello, DotFile} }, datadir : { PlainDir },
      filters : { NoFilters },
      sign : BOOLEAN, signfile : { "alice.rsa" },
      data_hash : { TRUE }, hash_method : { "sha256" },
      helper : { "ok" } ]

\* the builds two threads of one process run at the same time
ThreadBuilds ==
    [ tree : { {Hello, DebugSym} }, datadir : { PlainDir },
      filters : FilterArgs,
      sign : { TRUE }, signfile : { "alice.rsa" },
      data_hash : { TRUE }, hash_method : { "sha256" },
      helper : { "ok" } ]

Threads == { "t1", "t2" }

Environs ==
    { [ PACKAGE_PRIVKEY |-> <<>>, PACKAGE_PUBKEY |-> <<>> ],
      [ PACKAGE_PRIVKEY |-> <<"alice.rsa">>, PACKAGE_PUBKEY |-> <<"bob", ".pub">> ],
      [ PACKAGE_PRIVKEY |-> <<"lost.rsa">>, PACKAGE_PUBKEY |-> <<>> ] }

NoArgs ==
    [ tree |-> {}, datadir |-> PlainDir, filters |-> NoFilters,
      sign |-> FALSE, signfile |-> NoneVal, data_hash |-> FALSE,
      hash_method |-> "sha256", helper |-> "ok" ]

NoCall ==
    [ args |-> NoArgs,
      prior |-> NoneFilters, registry |-> NoneFilters, raised |-> "nocall",
      scratch |-> <<>>, package |-> NewPackage, data |-> <<>>,
      control |-> <<>>, combined |-> BytesIO(<<>>) ]

NoAPK == [ made |-> FALSE, fileobj |-> BytesIO(<<>>), package |-> NewPackage ]

DestPaths == { "hello-1.0.apk", "other-1.0.apk" }

NoFile == [ exists |-> FALSE, data |-> <<>> ]

OldFile == [ exists |-> TRUE, data |-> << [ gz |-> <<>> ] >> ]

NoWrite == [ n |-> 0, path |-> NoneVal, existed |-> FALSE, raised |-> FALSE ]

\* the locals of a thread that has not called create
Idle ==
    [ args |-> NoArgs, todo |-> <<>>, work |-> <<>>, tar |-> <<>>,
      seen |-> {}, error |-> "none", archive |-> <<>> ]

InitProcess ==
    /\ FILTERS = NoneFilters
    /\ cryptography \in BOOLEAN
    /\ environ \in Environs
    /\ scratch = {}
    /\ calls = 0
    /\ last = NoCall
    /\ apk = NoAPK
    /\ written = NoWrite
    /\ pc = [ t \in Threads |-> "idle" ]
    /\ loc = [ t \in Threads |-> Idle ]

Init ==
    /\ InitProcess
    /\ disk = [ p \in DestPaths |-> NoFile ]

\* APKFile.create(package, datadir, sign, signfile, data_hash, hash_method,
\* filters=...), the whole call
Create(args) ==
    /\ calls < MaxCalls
    /\ LET r == create(FILTERS, environ, cryptography, args)
       IN  /\ FILTERS' = r.registry
           /\ scratch' = scratch \cup {calls + 1}
           /\ last' = r
           /\ apk' = IF r.raised = "none"
                     THEN [ made |-> TRUE, fileobj |-> r.combined,
                            package |-> r.package ]
                     ELSE NoAPK
    /\ calls' = calls + 1
    /\ UNCHANGED <<cryptography, environ, disk, written, pc, loc>>

Next == \E args \in Builds : Create(args)

Spec == Init /\ [][Next]_vars

\* ------------------------------------------- a process that writes archives

InitWrite ==
    /\ InitProcess
    /\ disk \in [ DestPaths -> { NoFile, OldFile } ]

\* apk.write(path) on the APKFile the latest create returned
Write(path) ==
    /\ apk.made
    /\ written.n < MaxWrites
    /\ LET r == write(apk.fileobj, disk[path])
       IN  /\ apk' = [ apk EXCEPT !.fileobj = r.fileobj ]
           /\ disk' = [ disk EXCEPT ![path] = r.file ]
           /\ written' = [ n |-> written.n + 1, path |-> path,
                           existed |-> disk[path].exists, raised |-> r.raised ]
    /\ UNCHANGED <<FILTERS, cryptography, environ, scratch, calls, last, pc, loc>>

NextWrite ==
    \/ \E args \in WriteBuilds : Create(args)
    \/ \E path \in DestPaths : Write(path)

SpecWrite == InitWrite /\ [][NextWrite]_vars

\* ------------------------------------- two create calls in one process

InitThreads ==
    /\ InitProcess
    /\ cryptography = TRUE
    /\ environ.PACKAGE_PRIVKEY = <<>>
    /\ disk = [ p \in DestPaths |-> NoFile ]

\* the paths glob hands to data.add, in order
TopLevel(tree) == [ i \in 1..Len(glob(tree)) |-> <<glob(tree)[i]>> ]

\* the entries of a directory as the paths tarfile.add recurses into, in order
Children(tree, arc) ==
    [ i \in 1..Len(listdir(tree, arc)) |-> Append(arc, listdir(tree, arc)[i]) ]

\* a thread enters create
Call(t, args) ==
    /\ pc[t] = "idle"
    /\ pc' = [ pc EXCEPT ![t] = "reset" ]
    /\ loc' = [ loc EXCEPT ![t] = [ Idle EXCEPT !.args = args ] ]
    /\ UNCHANGED <<FILTERS, cryptography, environ, scratch, calls, last, apk,
                   disk, written>>

\* line 234: FILTERS = None; the callables lines 236-240 will register
Reset(t) ==
    /\ pc[t] = "reset"
    /\ FILTERS' = reset_filters(FILTERS)
    /\ loc' = [ loc EXCEPT ![t].todo =
                  loc[t].args.filters.funcs \o <<"ensure_no_debug">> ]
    /\ pc' = [ pc EXCEPT ![t] = "add_check" ]
    /\ UNCHANGED <<cryptography, environ, scratch, calls, last, apk, disk,
                   written>>

\* line 41 of _add_filter_func: if FILTERS is None
AddCheck(t) ==
    /\ pc[t] = "add_check"
    /\ pc' = [ pc EXCEPT ![t] = IF FILTERS.none THEN "add_init" ELSE "add_put" ]
    /\ UNCHANGED <<FILTERS, cryptography, environ, scratch, calls, last, apk,
                   disk, written, loc>>

\* line 42 of _add_filter_func: FILTERS = set()
AddInit(t) ==
    /\ pc[t] = "add_init"
    /\ FILTERS' = FilterSet({})
    /\ pc' = [ pc EXCEPT ![t] = "add_put" ]
    /\ UNCHANGED <<cryptography, environ, scratch, calls, last, apk, disk,
                   written, loc>>

\* line 44 of _add_filter_func: FILTERS.add(func), an AttributeError when
\* FILTERS is None by now
AddPut(t) ==
    /\ pc[t] = "add_put"
    /\ IF FILTERS.none
       THEN /\ loc' = [ loc EXCEPT ![t].error = "AttributeError" ]
            /\ pc' = [ pc EXCEPT ![t] = "raised" ]
            /\ UNCHANGED FILTERS
       ELSE /\ FILTERS' = add_filter_func(FILTERS, Head(loc[t].todo))
            /\ loc' = [ loc EXCEPT ![t].todo = Tail(loc[t].todo) ]
            /\ pc' = [ pc EXCEPT ![t] =
                         IF Len(loc[t].todo) = 1 THEN "mkstemp" ELSE "add_check" ]
    /\ UNCHANGED <<cryptography, environ, scratch, calls, last, apk, disk,
                   written>>

\* lines 133-139: the scratch file is made, glob lists the top level
Mkstemp(t) ==
    /\ pc[t] = "mkstemp"
    /\ scratch' = scratch \cup {calls + 1}
    /\ calls' = calls + 1
    /\ loc' = [ loc EXCEPT ![t].work = TopLevel(loc[t].args.tree) ]
    /\ pc' = [ pc EXCEPT ![t] = "tar" ]
    /\ UNCHANGED <<FILTERS, cryptography, environ, last, apk, disk, written>>

\* one TarFile.add of lines 140-141: _tar_filter asks the callables FILTERS
\* holds now (a TypeError when it is None); a name not excluded is added and,
\* for a directory, its entries come next
TarAdd(t) ==
    /\ pc[t] = "tar"
    /\ Len(loc[t].work) > 0
    /\ LET arc  == Head(loc[t].work)
           args == loc[t].args
           out  == tar_filter(FILTERS, FullName(args.datadir, arc))
           more == IF ~out /\ IsDir(args.tree, arc)
                   THEN Children(args.tree, arc) ELSE <<>>
       IN  IF FILTERS.none
           THEN /\ loc' = [ loc EXCEPT ![t].error = "TypeError" ]
                /\ pc' = [ pc EXCEPT ![t] = "raised" ]
           ELSE /\ loc' = [ loc EXCEPT
                              ![t].seen = loc[t].seen \cup {FILTERS},
                              ![t].work = more \o Tail(loc[t].work),
                              ![t].tar  = IF out THEN loc[t].tar
                                          ELSE Append(loc[t].tar,
                                                      Member(args.tree, arc)) ]
                /\ UNCHANGED pc
    /\ UNCHANGED <<FILTERS, cryptography, environ, scratch, calls, last, apk,
                   disk, written>>

\* the tar is closed; lines 143-288 on the thread's own objects
Finish(t) ==
    /\ pc[t] = "tar"
    /\ Len(loc[t].work) = 0
    /\ LET tar == loc[t].tar \o <<EndOfArchive>>
           r   == assemble(tar, environ, cryptography, loc[t].args)
       IN  loc' = [ loc EXCEPT ![t].tar = tar,
                               ![t].archive = getvalue(r.combined) ]
    /\ pc' = [ pc EXCEPT ![t] = "done" ]
    /\ UNCHANGED <<FILTERS, cryptography, environ, scratch, calls, last, apk,
                   disk, written>>

NextThreads ==
    \E t \in Threads :
        \/ \E args \in ThreadBuilds : Call(t, args)
        \/ Reset(t)
        \/ AddCheck(t)
        \/ AddInit(t)
        \/ AddPut(t)
        \/ Mkstemp(t)
        \/ TarAdd(t)
        \/ Finish(t)

SpecThreads == InitThreads /\ [][NextThreads]_vars

\* ------------------------------------------------- reading an archive back

\* the bytes of the archive the latest create returned
Archive == getvalue(apk.fileobj)

\* the tar members of every compressed stream of a byte string
MembersOf(bytes) ==
    UNION { { gunzip(bytes[i])[j] : j \in 1..Len(gunzip(bytes[i])) } :
            i \in 1..Len(bytes) }

\* the tar members of one compressed stream
StreamMembers(stream) == { gunzip(stream)[j] : j \in 1..Len(gunzip(stream)) }

IsPkgInfo(m) == m.name = <<".PKGINFO">>

IsSignature(m) == Len(m.name) > 0 /\ m.name[1] = ".SIGN.RSA."

\* data occurs in bytes as a contiguous run
OccursIn(data, bytes) ==
    \E i \in 0..(Len(bytes) - Len(data)) :
        SubSeq(bytes, i + 1, i + Len(data)) = data

\* bytes ends with data
EndsWith(bytes, data) ==
    /\ Len(data) <= Len(bytes)
    /\ SubSeq(bytes, Len(bytes) - Len(data) + 1, Len(bytes)) = data

Returned == last.raised = "none"

RECURSIVE SizeOf(_)
SizeOf(files) ==
    IF files = {} THEN 0
    ELSE LET f == CHOOSE x \in files : TRUE
         IN  FileSize(f) + SizeOf(files \ {f})

\* the filter set of a call: its own filters and the debug exclusion
Own(args) == FilterSet(FuncsOf(args.filters) \cup {"ensure_no_debug"})

\* the filter set of the latest call
OwnFilters == Own(last.args)

\* ------------------------------------------------------------------ claims

\* C1: the archive create returns is exactly two compressed streams, the
\* metadata stream (.PKGINFO and, when signed, the signature entry) first
\* and the payload stream second.
C1_TwoStreams ==
    Returned =>
        /\ Len(Archive) = 2
        /\ \E m \in StreamMembers(Archive[1]) : IsPkgInfo(m)
        /\ last.args.sign => \E m \in StreamMembers(Archive[1]) : IsSignature(m)
        /\ <<Archive[2]>> = last.data

C3_SignedBytesInArchive ==
    (Returned /\ last.args.sign) =>
        \E s \in MembersOf(Archive) :
            /\ IsSignature(s)
            /\ s.body.over = last.control
            /\ \A m \in MembersOf(s.body.over) : ~IsSignature(m)
            /\ \E m \in MembersOf(s.body.over) : IsPkgInfo(m)
            /\ OccursIn(s.body.over, Archive)

\* C3 witness: a signed archive was returned
C3_Witness ==
    /\ Returned /\ last.args.sign
    /\ \E s \in MembersOf(Archive) : IsSignature(s)

\* C4: whatever filters the caller passes, no entry whose path contains
\* usr/lib/debug is in the payload archive.
C4_NoDebugEntry ==
    \A name \in Names(last.scratch) : ~Contains(Join(name), DebugNeedle)

C6_FailFast ==
    apk.made =>
        /\ last.args.helper = "ok"
        /\ last.args.data_hash => last.args.hash_method \in HashlibNames
        /\ last.args.sign => \E s \in MembersOf(Archive) : IsSignature(s)

\* C7: in a sequence of create calls, the registry the payload of a call is
\* archived under is the filters of that call plus the debug exclusion,
\* whatever the earlier calls passed.
C7_FiltersOfThisCall ==
    last.raised # "nocall" =>
        /\ last.registry = OwnFilters
        /\ FILTERS = OwnFilters
        /\ last.scratch = data_tar(last.args.tree, last.args.datadir, OwnFilters)

\* C7 witness: a second call whose predecessor registered a filter this call
\* does not pass
C7_Witness ==
    /\ calls >= 2
    /\ ~last.prior.none
    /\ last.prior.funcs \ OwnFilters.funcs # {}
    /\ last.registry = OwnFilters

\* C9: once create has returned or raised, no scratch file of the payload
\* archiver exists.
C9_NoScratchLeft == scratch = {}

\* C10: write(path) fails and leaves the file as it is when a file exists at
\* path; it makes a file, holding the archive, only where none existed.
C10_ExclusiveCreate ==
    [][ \A p \in DestPaths :
          /\ disk[p].exists => disk'[p] = disk[p]
          /\ (written'.n # written.n /\ written'.path = p) =>
                /\ written'.raised <=> disk[p].exists
                /\ ~disk[p].exists =>
                      disk'[p] = [ exists |-> TRUE, data |-> Archive ]
          /\ disk'[p] # disk[p] =>
                (written'.n # written.n /\ written'.path = p /\ ~written'.raised)
      ]_vars

\* C10 witness: a write that met a file at its path, after a write that made one
C10_Witness ==
    /\ written.n >= 2 /\ written.existed /\ written.raised
    /\ \E p \in DestPaths : disk[p].exists /\ disk[p] # OldFile

\* C8: when two create calls run at the same time, each archives its payload
\* under its own filter set only: every registry _tar_filter consults is the
\* call's own, none is taken away under it, and the payload is the one its
\* own filter set gives.
C8_OwnFiltersOnly ==
    \A t \in Threads :
        /\ loc[t].seen \subseteq { Own(loc[t].args) }
        /\ loc[t].error = "none"
        /\ pc[t] = "done" =>
              loc[t].tar = data_tar(loc[t].args.tree, loc[t].args.datadir,
                                    Own(loc[t].args))

====
